---- MODULE Spec2Model ----
(***************************************************************************)
(* SmartRetrievalMCP (mcp-server/smart_retrieval_mcp.py): query expansion, *)
(* two-stage retrieval (facts, then episodes group by group), association  *)
(* learning and JSON persistence of the term-association table.            *)
(*                                                                         *)
(* A Python str is a sequence of one-character strings, so that lower(),   *)
(* split() and ' '.join() are computed and not assumed.  A Python dict is  *)
(* a sequence of <<key, value>> pairs in insertion order.  Several search  *)
(* coroutines run on one event loop; control changes hands only where a    *)
(* coroutine awaits the store.                                             *)
(***************************************************************************)
EXTENDS Integers, Sequences, FiniteSets, TLC

VARIABLES
    graphiti_client,    \* TRUE: a client is configured; FALSE: None
    term_associations,  \* dict: query -> list of learned terms
    learning_enabled,   \* self.learning_enabled
    search_history,     \* self.search_history (the queries of the entries)
    hash_seed,          \* the str hash seed of the process, which orders its sets
    file,               \* search_learning.json: Absent, Malformed or a document
    tasks,              \* the search / get_episode_by_uuid coroutines
    save_status,        \* outcome of the last save_learning_data of this instance
    learned_log,        \* <<query, term>> pairs appended by learning steps of this instance
    init_status,        \* "ok", or "raised" when __init__ raised
    started             \* number of calls started so far

vars == <<graphiti_client, term_associations, learning_enabled, search_history, hash_seed,
          file, tasks, save_status, learned_log, init_status, started>>

----------------------------------------------------------------------------
(* Bounds of the model *)

NumTasks == 2
MaxCalls == 2

Tasks == 1..NumTasks

----------------------------------------------------------------------------
(* Program constants *)

max_facts == 20
max_episodes == 50
MaxFactsLearned == 10
MaxEpisodesLearned == 5
MaxNewTerms == 10
MinWordLen == 2
DirectTerms == 5
WordTerms == 3

----------------------------------------------------------------------------
(* Python str and list primitives *)

Min(a, b) == IF a < b THEN a ELSE b

\* seq[:n]
Take(seq, n) == SubSeq(seq, 1, Min(n, Len(seq)))

Range(seq) == {seq[i] : i \in DOMAIN seq}

\* The characters that have a distinct lowercase form in the strings used here.
lower_char(c) ==
    CASE c = "A" -> "a"
      [] c = "B" -> "b"
      [] c = "C" -> "c"
      [] c = "D" -> "d"
      [] c = "E" -> "e"
      [] c = "S" -> "s"
      [] OTHER -> c

\* str.lower()
lower(s) == [i \in DOMAIN s |-> lower_char(s[i])]

\* str.split(): split on runs of whitespace, no empty words
RECURSIVE split_from(_, _, _)
split_from(s, i, cur) ==
    IF i > Len(s)
    THEN IF cur = <<>> THEN <<>> ELSE <<cur>>
    ELSE IF s[i] = " "
         THEN IF cur = <<>>
              THEN split_from(s, i + 1, <<>>)
              ELSE <<cur>> \o split_from(s, i + 1, <<>>)
         ELSE split_from(s, i + 1, Append(cur, s[i]))

split(s) == split_from(s, 1, <<>>)

\* ' '.join(terms)
RECURSIVE join(_)
join(terms) ==
    IF terms = <<>> THEN <<>>
    ELSE IF Len(terms) = 1 THEN terms[1]
    ELSE terms[1] \o <<" ">> \o join(Tail(terms))

----------------------------------------------------------------------------
(* Python dict, as a sequence of <<key, value>> pairs in insertion order *)

dict_keys(d) == {d[i][1] : i \in DOMAIN d}

dict_has(d, k) == k \in dict_keys(d)

dict_get(d, k) == d[CHOOSE i \in DOMAIN d : d[i][1] = k][2]

\* d[k] = v: replaces in place, or adds the key at the end
dict_set(d, k, v) ==
    IF dict_has(d, k)
    THEN [i \in DOMAIN d |-> IF d[i][1] = k THEN <<k, v>> ELSE d[i]]
    ELSE Append(d, <<k, v>>)

\* d.get(k, default)
dict_get_or(d, k, default) == IF dict_has(d, k) THEN dict_get(d, k) ELSE default

----------------------------------------------------------------------------
(* Python values read by the shape checks of the code (isinstance, hasattr): *)
(* a value is [type, value]; an object is a record whose attributes are its  *)
(* fields, so hasattr(o, 'a') is "a" \in DOMAIN o.                           *)

PyStr(s) == [type |-> "str", value |-> s]
PyInt(n) == [type |-> "int", value |-> n]
PyList(items) == [type |-> "list", value |-> items]
PyDict(pairs) == [type |-> "dict", value |-> pairs]

isinstance(v, t) == v.type = t

hasattr(o, a) == a \in DOMAIN o

----------------------------------------------------------------------------
(* 4.1 query expansion *)

\* lines 102-104: the learned terms of every word of the query that is a key
RECURSIVE word_terms(_)
word_terms(words) ==
    IF words = <<>> THEN <<>>
    ELSE (IF dict_has(term_associations, Head(words))
          THEN Take(dict_get(term_associations, Head(words)), WordTerms)
          ELSE <<>>)
         \o word_terms(Tail(words))

\* lines 107-112: case-insensitive dedup that keeps the first form seen
RECURSIVE unique_terms(_, _)
unique_terms(terms, seen) ==
    IF terms = <<>> THEN <<>>
    ELSE IF lower(Head(terms)) \in seen
         THEN unique_terms(Tail(terms), seen)
         ELSE <<Head(terms)>> \o unique_terms(Tail(terms), seen \cup {lower(Head(terms))})

\* lines 94-104
expanded_terms(query) ==
    <<query>>
    \o (IF dict_has(term_associations, query)
        THEN Take(dict_get(term_associations, query), DirectTerms)
        ELSE <<>>)
    \o word_terms(split(query))

\* _expand_query comparing and keeping the lowercased forms
expand_query_lowered(query) == lower(join(unique_terms(expanded_terms(query), {})))

_expand_query(query) == join(unique_terms(expanded_terms(query), {}))

----------------------------------------------------------------------------
(* 4.2 two-stage retrieval: the parts that do not wait on the store *)

default_group_ids == <<"volunteer-job-procedures", "volunteer-job-preferences", "volunteer-job">>

\* lines 52-53: "if not group_ids" is true of None and of the empty list
effective_group_ids(group_ids) == IF group_ids = <<>> THEN default_group_ids ELSE group_ids

\* lines 132-139: the fact dict of an edge (node uuids and created_at are not read again)
fact_dict(edge) ==
    [uuid |-> edge.uuid,
     fact |-> edge.fact,
     episodes |-> IF hasattr(edge, "episodes") THEN edge.episodes ELSE <<>>]

format_facts(search_results) == [i \in DOMAIN search_results |-> fact_dict(search_results[i])]

\* list(set of every fact's episode uuids); the list is only tested for
\* emptiness and membership, so its order is immaterial and it is kept as a set
_extract_episode_uuids(facts) == UNION {Range(facts[i].episodes) : i \in DOMAIN facts}

\* lines 173-180: the episode dict of a store episode
episode_dict(episode) ==
    [uuid |-> episode.uuid,
     name |-> IF hasattr(episode, "name") THEN episode.name ELSE <<>>,
     content |-> IF hasattr(episode, "content") THEN episode.content ELSE PyStr(<<>>),
     group_id |-> IF hasattr(episode, "group_id") THEN episode.group_id ELSE "",
     source |-> IF hasattr(episode, "source") THEN episode.source ELSE "text"]

\* line 178: created_at.isoformat() raises AttributeError when the attribute is None
created_at_raises(episode) == hasattr(episode, "created_at") /\ episode.created_at = "None"

\* lines 171-181 over one group's episodes: the episodes list after the loop,
\* and whether the loop raised (the appends made before the raise are kept)
RECURSIVE filter_group(_, _, _)
filter_group(group_episodes, uuids, episodes) ==
    IF group_episodes = <<>> THEN [episodes |-> episodes, raised |-> FALSE]
    ELSE LET episode == Head(group_episodes) IN
         IF hasattr(episode, "uuid") /\ episode.uuid \in uuids
         THEN IF created_at_raises(episode)
              THEN [episodes |-> episodes, raised |-> TRUE]
              ELSE filter_group(Tail(group_episodes), uuids, Append(episodes, episode_dict(episode)))
         ELSE filter_group(Tail(group_episodes), uuids, episodes)

----------------------------------------------------------------------------
(* 4.4 association learning: the candidate terms *)

\* lines 247-250: the lowercased words of a fact text longer than two characters
fact_terms(fact) ==
    LET words == split(fact.fact) IN
    {lower(words[i]) : i \in {j \in DOMAIN words : Len(words[j]) > MinWordLen}}

\* line 262 for one keyword list: the lowercased str entries
list_terms(terms) ==
    IF isinstance(terms, "list")
    THEN {lower(terms.value[i].value) :
            i \in {j \in DOMAIN terms.value : isinstance(terms.value[j], "str")}}
    ELSE {}

key_types == {"chinese", "english", "technical"}

\* lines 254-262
episode_terms(episode) ==
    LET content == episode.content IN
    IF isinstance(content, "dict")
    THEN LET keywords == dict_get_or(content.value, "keywords", PyDict(<<>>)) IN
         IF isinstance(keywords, "dict")
         THEN UNION {list_terms(dict_get_or(keywords.value, kt, PyList(<<>>))) : kt \in key_types}
         ELSE {}
    ELSE {}

\* learning that skips the episodes
learned_terms_facts_only(facts, episodes) ==
    LET fs == Take(facts, MaxFactsLearned)
    IN UNION {fact_terms(fs[i]) : i \in DOMAIN fs}

\* lines 242-262
learned_terms(facts, episodes) ==
    LET fs == Take(facts, MaxFactsLearned)
        es == Take(episodes, MaxEpisodesLearned)
    IN UNION {fact_terms(fs[i]) : i \in DOMAIN fs}
       \cup UNION {episode_terms(es[i]) : i \in DOMAIN es}

\* new_terms without "- {query.lower()}"
new_terms_keeps_query(query, facts, episodes) ==
    learned_terms(facts, episodes) \ Range(dict_get_or(term_associations, query, <<>>))

\* lines 265-269 (a key that is missing reads as the empty list it is created with)
new_terms(query, facts, episodes) ==
    (learned_terms(facts, episodes)
        \ Range(dict_get_or(term_associations, query, <<>>)))
    \ {lower(query)}

----------------------------------------------------------------------------
(* 4.5 persistence: json.dump / json.load of the table *)

\* json.dump of a list of str: a JSON array of JSON strings
json_array(terms) ==
    [type |-> "array", value |-> [i \in DOMAIN terms |-> [type |-> "string", value |-> terms[i]]]]

\* json.dump of the table: a JSON object, one member per key, in insertion order
json_object(d) ==
    [type |-> "object", value |-> [i \in DOMAIN d |-> <<d[i][1], json_array(d[i][2])>>]]

\* lines 280-283, 292: the document written
json_dump(d) ==
    [type |-> "object",
     value |-> << <<"term_associations", json_object(d)>>,
                  <<"last_updated", [type |-> "string", value |-> "isoformat"]>> >>]

\* json.load of a JSON array of strings: a list of str
py_list(arr) == [i \in DOMAIN arr.value |-> arr.value[i].value]

\* json.load of a JSON object whose members are arrays: a dict; a repeated
\* member name keeps the last value
RECURSIVE py_dict(_, _)
py_dict(members, d) ==
    IF members = <<>> THEN d
    ELSE py_dict(Tail(members), dict_set(d, Head(members)[1], py_list(Head(members)[2])))

\* load that normalises the keys to lowercase
json_load_lower_keys(doc) ==
    IF dict_has(doc.value, "term_associations")
    THEN LET d == py_dict(dict_get(doc.value, "term_associations").value, <<>>)
         IN [i \in DOMAIN d |-> <<lower(d[i][1]), d[i][2]>>]
    ELSE <<>>

\* lines 306-307: data.get('term_associations', {}) of the loaded document
json_load_associations(doc) ==
    IF dict_has(doc.value, "term_associations")
    THEN py_dict(dict_get(doc.value, "term_associations").value, <<>>)
    ELSE <<>>

Absent == [state |-> "absent"]
Malformed == [state |-> "malformed"]
Document(doc) == [state |-> "json", doc |-> doc]

\* load without its try block
load_learning_data_no_try(f) ==
    IF f.state = "absent" THEN [term_associations |-> <<>>, raised |-> FALSE]
    ELSE IF f.state = "malformed" THEN [term_associations |-> <<>>, raised |-> TRUE]
    ELSE [term_associations |-> json_load_associations(f.doc), raised |-> FALSE]

\* lines 296-310: the table after load, and whether load raised.  __init__
\* (line 26) has set the table to {} before.
load_learning_data(f) ==
    IF f.state = "absent" THEN [term_associations |-> <<>>, raised |-> FALSE]
    ELSE IF f.state = "malformed" THEN [term_associations |-> <<>>, raised |-> FALSE]
    ELSE [term_associations |-> json_load_associations(f.doc), raised |-> FALSE]

\* The ways a write can end: it succeeds; open() raises and the file is as it
\* was; open() has truncated the file and the write raises part-way.
SaveOutcomes == {"ok", "open_raises", "write_raises"}

\* save called before the list is extended
save_before_update(d, f, outcome) ==
    IF outcome = "ok" THEN [file |-> Document(json_dump(term_associations)), raised |-> FALSE]
    ELSE IF outcome = "open_raises" THEN [file |-> f, raised |-> FALSE]
    ELSE [file |-> Malformed, raised |-> FALSE]

\* lines 278-294: the file after save, and whether save raised
save_learning_data(d, f, outcome) ==
    IF outcome = "ok" THEN [file |-> Document(json_dump(d)), raised |-> FALSE]
    ELSE IF outcome = "open_raises" THEN [file |-> f, raised |-> FALSE]
    ELSE [file |-> Malformed, raised |-> FALSE]

----------------------------------------------------------------------------
(* Iteration order of a Python set of str.  The order follows the hash slots, *)
(* which depend on the str hash seed the process drew when it started: it is  *)
(* modelled as the order of a fixed listing of the terms, started at the      *)
(* seed's offset and read in the seed's direction.                            *)

TermUniverse ==
    << <<"a","b","c">>, <<"x","y","z">>, <<"s","h","i">>, <<"s","h">>,
       <<"d","e"," ","a","b","c">>, <<"z","z">>,
       <<"f">>, <<"g">>, <<"h">>, <<"i">>, <<"j">>, <<"k">>,
       <<"l">>, <<"m">>, <<"n">>, <<"o">>, <<"p">> >>

slot_order(offset, reversed) ==
    LET n == Len(TermUniverse) IN
    [j \in 1..n |-> TermUniverse[IF reversed THEN ((offset + n - j) % n) + 1
                                              ELSE ((offset + j - 1) % n) + 1]]

HashSeeds == {[offset |-> 0, reversed |-> FALSE], [offset |-> 9, reversed |-> TRUE]}

\* list(s)
set_list(s) ==
    LET member(x) == x \in s IN
    SelectSeq(slot_order(hash_seed.offset, hash_seed.reversed), member)

\* line 271 without the [:10]
appended_terms_uncapped(s) == set_list(s)

\* line 271: list(new_terms)[:10]
appended_terms(s) == Take(set_list(s), MaxNewTerms)

\* the list assigned, not extended
learn_update_overwrites(d, query, added) == dict_set(d, query, added)

\* lines 265-271: the table after the update with one of those values
learn_update(d, query, added) == dict_set(d, query, dict_get_or(d, query, <<>>) \o added)

----------------------------------------------------------------------------
(* The store: what graphiti_client.search, driver.get_episodes and           *)
(* driver.execute_query can answer.  Every call can also raise.              *)

QA == <<"A","b","c">>
QB == <<"d","e"," ","A","b","c">>
Queries == {QA, QB}

edge0 == [uuid |-> "f0", fact |-> <<>>, episodes |-> <<>>]
edge1 == [uuid |-> "f1", fact |-> <<"A","b","c"," ","x","y","z"," ","d","e">>, episodes |-> <<"e1">>]
edge2 == [uuid |-> "f2", fact |-> <<>>, episodes |-> <<"e1", "e2">>]
edge3 == [uuid |-> "f3", fact |-> <<"S","h","i">>]
edge4 == [uuid |-> "f4", fact |-> <<"z","z","z">>, episodes |-> <<"e3", "e4", "e5", "e6", "e7", "e8", "e9">>]

keywords(kt, items) == PyDict(<< <<"keywords", PyDict(<< <<kt, PyList(items)>> >>)>> >>)

ep1 == [uuid |-> "e1", name |-> <<"n">>, group_id |-> "volunteer-job-procedures",
        content |-> keywords("english", <<PyStr(<<"S","h">>), PyStr(<<"s","h">>), PyInt(7),
                                           PyStr(<<"D","E"," ","a","b","c">>)>>)]
ep2 == [uuid |-> "e2", group_id |-> "volunteer-job-preferences",
        content |-> keywords("technical",
                     <<PyStr(<<"f">>), PyStr(<<"g">>), PyStr(<<"h">>), PyStr(<<"i">>),
                       PyStr(<<"j">>), PyStr(<<"k">>), PyStr(<<"l">>), PyStr(<<"m">>),
                       PyStr(<<"n">>), PyStr(<<"o">>), PyStr(<<"p">>)>>)]
ep_anon == [name |-> <<"n">>, content |-> PyStr(<<"t">>)]
ep_text(uuid) == [uuid |-> uuid, content |-> PyStr(<<"t">>), group_id |-> "volunteer-job"]
ep8 == [uuid |-> "e8", group_id |-> "volunteer-job",
        content |-> keywords("chinese", <<PyStr(<<"z","z">>)>>)]
ep9 == [uuid |-> "e9", content |-> PyStr(<<"t">>), created_at |-> "None"]

StoreEpisodes(group_id) ==
    CASE group_id = "volunteer-job-procedures" -> <<ep1>>
      [] group_id = "volunteer-job-preferences" -> <<ep_anon, ep2>>
      [] group_id = "volunteer-job" ->
            <<ep_text("e3"), ep_text("e4"), ep_text("e5"), ep_text("e6"), ep_text("e7"), ep8, ep9>>
      [] OTHER -> <<>>

\* driver.get_episodes(group_id, last_n): at most last_n episodes of the group
get_episodes(group_id, last_n) == Take(StoreEpisodes(group_id), last_n)

Raises == [raises |-> TRUE]
Returns(v) == [raises |-> FALSE, value |-> v]

eleven_edges == <<edge3, edge0, edge0, edge0, edge0, edge0, edge0, edge0, edge0, edge0, edge4>>

\* graphiti_client.search(query, num_results, group_ids)
SearchOutcomes ==
    {Raises} \cup
    {Returns(r) : r \in {x \in {<<>>, <<edge2, edge1>>, eleven_edges} : Len(x) <= max_facts}}

\* The answers used when several searches run at once
ConcurrentSearchOutcomes == {Raises, Returns(<<edge1>>)}

\* driver.execute_query(MATCH (e:Episodic {uuid: $uuid}) ... LIMIT 1)
execute_query(uuid) ==
    IF uuid = "e1" THEN <<[uuid |-> "e1", name |-> <<"n">>]>> ELSE <<>>

GroupChoices == {<<>>, <<"volunteer-job">>}
Uuids == {"e1", "e0"}

----------------------------------------------------------------------------
(* The coroutines *)

NoResult == [kind |-> "none"]

IdleTask ==
    [pc |-> "idle", op |-> "none", arg |-> <<>>, group_ids |-> <<>>, learn |-> FALSE,
     expanded_query |-> <<>>, facts |-> <<>>, uuids |-> {}, episodes |-> <<>>, gi |-> 0,
     facts_error |-> "none", fetch_error |-> "none", fetch_calls |-> 0, result |-> NoResult]

\* The locals of a call that has ended are gone; what the caller got stays.
Ended(tk, pc, result) ==
    [tk EXCEPT !.pc = pc, !.result = result, !.group_ids = <<>>, !.expanded_query = <<>>,
               !.facts = <<>>, !.uuids = {}, !.episodes = <<>>, !.gi = 0]

Free(t) == tasks[t].pc \in {"idle", "returned", "raised"}

\* _search_facts without its try block
search_facts_reraise == [facts |-> <<>>, raised |-> TRUE]

\* lines 143-145: what _search_facts gives when the store call raised
search_facts_except == [facts |-> <<>>, raised |-> FALSE]

\* _fetch_episodes returning [] from its except clause, as _search_facts does
fetch_episodes_except_empty(episodes) == [episodes |-> <<>>, raised |-> FALSE]

\* lines 183-186: what _fetch_episodes gives when the try block raised
fetch_episodes_except(episodes) == [episodes |-> episodes, raised |-> FALSE]

\* lines 236-238: what get_episode_by_uuid gives when the store call raised
get_episode_except == [result |-> [kind |-> "None"], raised |-> FALSE]

\* lines 219-234: the episode of the first record, or None
get_episode_result(records) ==
    IF records # <<>>
    THEN [kind |-> "episode",
          uuid |-> records[1].uuid,
          name |-> IF hasattr(records[1], "name") THEN records[1].name ELSE <<>>,
          source |-> IF hasattr(records[1], "source") THEN records[1].source ELSE "text"]
    ELSE [kind |-> "None"]

\* lines 72-81: the result dict
search_result(tk, facts, episodes, d) ==
    [kind |-> "search",
     query |-> tk.arg,
     expanded_query |-> tk.expanded_query,
     facts |-> facts,
     episodes |-> episodes,
     facts_count |-> Len(facts),
     episodes_count |-> Len(episodes),
     learned_terms |-> dict_get_or(d, tk.arg, <<>>)]

\* lines 72-90: build the result, log the search, return
Return(t, tk, facts, episodes, d) ==
    /\ tasks' = [tasks EXCEPT ![t] = Ended(tk, "returned", search_result(tk, facts, episodes, d))]
    /\ search_history' = Append(search_history, [query |-> tk.arg])

\* lines 67-90: the last stretch of search, which waits on nothing.  The
\* learning step (lines 240-276) is the update of the list and the save.
Complete(t, tk, facts, episodes) ==
    IF tk.learn /\ learning_enabled
    THEN \E outcome \in SaveOutcomes :
            LET added == appended_terms(new_terms(tk.arg, facts, episodes))
                d == learn_update(term_associations, tk.arg, added)
                saved == save_learning_data(d, file, outcome)
            IN /\ term_associations' = d
               /\ file' = saved.file
               /\ save_status' = IF outcome = "ok" THEN "ok" ELSE "failed"
               /\ learned_log' = learned_log \cup {<<tk.arg, added[i]>> : i \in DOMAIN added}
               /\ IF saved.raised
                  THEN /\ tasks' = [tasks EXCEPT ![t] = Ended(tk, "raised", NoResult)]
                       /\ UNCHANGED search_history
                  ELSE Return(t, tk, facts, episodes, d)
    ELSE /\ UNCHANGED <<term_associations, file, save_status, learned_log>>
         /\ Return(t, tk, facts, episodes, term_associations)

\* lines 61-65 after the facts are known: extract the uuids and enter
\* _fetch_episodes, up to its first wait on the store
AfterFacts(t, tk, facts) ==
    LET uuids == _extract_episode_uuids(facts) IN
    IF graphiti_client = "None" \/ uuids = {}
    THEN Complete(t, tk, facts, <<>>)
    ELSE /\ tasks' = [tasks EXCEPT ![t] =
                        [tk EXCEPT !.pc = "await_episodes", !.facts = facts, !.uuids = uuids,
                                   !.episodes = <<>>, !.gi = 1, !.fetch_calls = 1]]
         /\ UNCHANGED <<term_associations, file, save_status, learned_log, search_history>>

\* search(query, group_ids, learn), lines 49-59, up to the wait on the store;
\* with no client _search_facts returns at once and the call runs to its end
StartSearch(t, query, group_ids, learn) ==
    /\ init_status = "ok"
    /\ Free(t)
    /\ started < MaxCalls
    /\ started' = started + 1
    /\ LET tk == [IdleTask EXCEPT !.op = "search", !.arg = query,
                                  !.group_ids = effective_group_ids(group_ids),
                                  !.learn = learn,
                                  !.expanded_query = _expand_query(query)]
       IN IF graphiti_client = "None"
          THEN AfterFacts(t, [tk EXCEPT !.facts_error = "no_client"], <<>>)
          ELSE /\ tasks' = [tasks EXCEPT ![t] = [tk EXCEPT !.pc = "await_facts"]]
               /\ UNCHANGED <<term_associations, file, save_status, learned_log, search_history>>
    /\ UNCHANGED <<graphiti_client, learning_enabled, hash_seed, init_status>>

\* graphiti_client.search answers: lines 121-145, then lines 61-65
ResumeFacts(t, outcome) ==
    /\ tasks[t].pc = "await_facts"
    /\ LET tk == tasks[t]
           r == IF outcome.raises THEN search_facts_except
                ELSE [facts |-> format_facts(outcome.value), raised |-> FALSE]
       IN IF r.raised
          THEN /\ tasks' = [tasks EXCEPT ![t] = Ended(tk, "raised", NoResult)]
               /\ UNCHANGED <<term_associations, file, save_status, learned_log, search_history>>
          ELSE AfterFacts(t, [tk EXCEPT !.facts_error = IF outcome.raises THEN "raised" ELSE "none"],
                          r.facts)
    /\ UNCHANGED <<graphiti_client, learning_enabled, hash_seed, init_status, started>>

\* driver.get_episodes answers for group gi: lines 164-186, then lines 67-90
\* when that was the last group or the try block raised
ResumeEpisodes(t, raises) ==
    /\ tasks[t].pc = "await_episodes"
    /\ LET tk == tasks[t]
           got == IF raises THEN [episodes |-> tk.episodes, raised |-> TRUE]
                  ELSE filter_group(get_episodes(tk.group_ids[tk.gi], max_episodes),
                                    tk.uuids, tk.episodes)
       IN IF got.raised
          THEN LET r == fetch_episodes_except(got.episodes) IN
               IF r.raised
               THEN /\ tasks' = [tasks EXCEPT ![t] = Ended(tk, "raised", NoResult)]
                    /\ UNCHANGED <<term_associations, file, save_status, learned_log,
                                   search_history>>
               ELSE Complete(t, [tk EXCEPT !.fetch_error = IF raises THEN "store" ELSE "processing"],
                             tk.facts, r.episodes)
          ELSE IF tk.gi < Len(tk.group_ids)
          THEN /\ tasks' = [tasks EXCEPT ![t] =
                              [tk EXCEPT !.episodes = got.episodes, !.gi = tk.gi + 1,
                                         !.fetch_calls = tk.fetch_calls + 1]]
               /\ UNCHANGED <<term_associations, file, save_status, learned_log, search_history>>
          ELSE Complete(t, tk, tk.facts, got.episodes)
    /\ UNCHANGED <<graphiti_client, learning_enabled, hash_seed, init_status, started>>

\* get_episode_by_uuid(uuid), lines 190-216, up to the wait on the store
StartLookup(t, uuid) ==
    /\ init_status = "ok"
    /\ Free(t)
    /\ started < MaxCalls
    /\ started' = started + 1
    /\ LET tk == [IdleTask EXCEPT !.op = "get_episode_by_uuid", !.arg = uuid] IN
       tasks' = [tasks EXCEPT ![t] =
                    IF graphiti_client = "None"
                    THEN Ended(tk, "returned", [kind |-> "None"])
                    ELSE [tk EXCEPT !.pc = "await_query"]]
    /\ UNCHANGED <<graphiti_client, term_associations, learning_enabled, search_history, hash_seed, file,
                   save_status, learned_log, init_status>>

\* driver.execute_query answers: lines 218-238
ResumeLookup(t, raises) ==
    /\ tasks[t].pc = "await_query"
    /\ LET tk == tasks[t]
           r == IF raises THEN get_episode_except
                ELSE [result |-> get_episode_result(execute_query(tk.arg)), raised |-> FALSE]
       IN tasks' = [tasks EXCEPT ![t] =
                       IF r.raised THEN Ended(tk, "raised", NoResult)
                       ELSE Ended(tk, "returned", r.result)]
    /\ UNCHANGED <<graphiti_client, term_associations, learning_enabled, search_history, hash_seed, file,
                   save_status, learned_log, init_status, started>>

\* graphiti_client: None, or a client whose driver is set
Clients == {"None", "client"}

\* __init__, lines 23-32, in a new process: the coroutines of the old one are gone
Construct(client, seed) ==
    /\ \A t \in Tasks : Free(t)
    /\ LET loaded == load_learning_data(file) IN
       /\ term_associations' = loaded.term_associations
       /\ init_status' = IF loaded.raised THEN "raised" ELSE "ok"
    /\ graphiti_client' = client
    /\ hash_seed' = seed
    /\ learning_enabled' = TRUE
    /\ search_history' = <<>>
    /\ tasks' = [t \in Tasks |-> IdleTask]
    /\ save_status' = "none"
    /\ learned_log' = {}
    /\ UNCHANGED <<file, started>>

Init ==
    /\ file = Absent
    /\ started = 0
    /\ graphiti_client \in Clients
    /\ hash_seed \in HashSeeds
    /\ term_associations = load_learning_data(file).term_associations
    /\ init_status = (IF load_learning_data(file).raised THEN "raised" ELSE "ok")
    /\ learning_enabled = TRUE
    /\ search_history = <<>>
    /\ tasks = [t \in Tasks |-> IdleTask]
    /\ save_status = "none"
    /\ learned_log = {}

\* One caller at a time: a call starts when no other is under way
Next ==
    \/ \E client \in Clients, seed \in HashSeeds : Construct(client, seed)
    \/ \E query \in Queries, group_ids \in GroupChoices, learn \in BOOLEAN :
          (\A t \in Tasks : Free(t)) /\ StartSearch(1, query, group_ids, learn)
    \/ \E outcome \in SearchOutcomes : ResumeFacts(1, outcome)
    \/ \E raises \in BOOLEAN : ResumeEpisodes(1, raises)
    \/ \E uuid \in Uuids : (\A t \in Tasks : Free(t)) /\ StartLookup(1, uuid)
    \/ \E raises \in BOOLEAN : ResumeLookup(1, raises)

Spec == Init /\ [][Next]_vars

\* Several callers of learning searches on one event loop
ConcurrentNext ==
    \/ \E t \in Tasks, query \in Queries :
          StartSearch(t, query, <<"volunteer-job-procedures">>, TRUE)
    \/ \E t \in Tasks, outcome \in ConcurrentSearchOutcomes : ResumeFacts(t, outcome)
    \/ \E t \in Tasks, raises \in BOOLEAN : ResumeEpisodes(t, raises)

SpecConcurrent == Init /\ [][ConcurrentNext]_vars

TypeOK ==
    /\ \A i \in DOMAIN term_associations :
          Range(term_associations[i][2]) \subseteq Range(TermUniverse)
    /\ \A t \in Tasks : tasks[t].pc \in {"idle", "await_facts", "await_episodes", "await_query",
                                          "returned", "raised"}

----------------------------------------------------------------------------
(* Vocabulary of the properties *)

NoDuplicates(seq) == \A i, j \in DOMAIN seq : i # j => seq[i] # seq[j]

IsPrefix(old, new) == Len(old) <= Len(new) /\ SubSeq(new, 1, Len(old)) = old

Suffix(old, new) == SubSeq(new, Len(old) + 1, Len(new))

\* sub occurs in s
Contains(s, sub) ==
    \E i \in 1..(Len(s) - Len(sub) + 1) : SubSeq(s, i, i + Len(sub) - 1) = sub

\* The list of key k, empty when k is not a key
ListOf(d, k) == dict_get_or(d, k, <<>>)

\* The table as a set of <<key, list>> pairs
Mapping(d) == {<<d[i][1], d[i][2]>> : i \in DOMAIN d}

\* The mapping read off the document in the file
FileMapping(f) ==
    LET top == f.doc.value
        obj == top[CHOOSE i \in DOMAIN top : top[i][1] = "term_associations"][2].value
    IN {<<obj[i][1], [j \in DOMAIN obj[i][2].value |-> obj[i][2].value[j].value]>> :
          i \in DOMAIN obj}

\* Task t ends a search call in this step
SearchReturns(t) ==
    /\ tasks'[t] # tasks[t]
    /\ tasks'[t].op = "search"
    /\ tasks'[t].pc = "returned"

\* A new instance is constructed in this step
ConstructStep == \E client \in Clients, seed \in HashSeeds : Construct(client, seed)

\* Strings expand is tried on, besides the queries
ExpandInputs ==
    Queries \cup {<<"d","e">>, <<" ","d","e">>, <<"x","y","z"," "," ","s","h">>, <<"x","y","z">>}

----------------------------------------------------------------------------
(* C1: in every reachable state, for every key k of the term-association   *)
(* table, no term of k's list equals k when both are lowercased, and k's    *)
(* list holds no term twice.                                                *)
C1_KeyListsClean ==
    \A i \in DOMAIN term_associations :
        LET k == term_associations[i][1]
            terms == term_associations[i][2]
        IN /\ \A j \in DOMAIN terms : lower(terms[j]) # lower(k)
           /\ NoDuplicates(terms)

\* A learning search for "de Abc" has met the keyword "DE abc" of episode e1
\* and kept the other keyword of that episode.
C1_Witness ==
    /\ dict_has(term_associations, QB)
    /\ <<"s","h">> \in Range(dict_get(term_associations, QB))
    /\ \E t \in Tasks : tasks[t].pc = "returned" /\ tasks[t].op = "search" /\ tasks[t].learn

(* C2 as stated: whenever q is not a key of the table, expand(q) is q.      *)
C2_Original ==
    \A q \in ExpandInputs : ~dict_has(term_associations, q) => _expand_query(q) = q

(* C2, amended: whenever neither q nor any whitespace-separated word of q   *)
(* is a key of the table, expand(q) is q.                                   *)
C2_NoKeyNoExpansion ==
    \A q \in ExpandInputs :
        (/\ ~dict_has(term_associations, q)
         /\ \A w \in Range(split(q)) : ~dict_has(term_associations, w))
        => _expand_query(q) = q

\* A search for "Abc" has returned its query unexpanded while the table
\* holds learned terms under another key.
C2_Witness ==
    /\ ~dict_has(term_associations, QA)
    /\ dict_has(term_associations, QB)
    /\ dict_get(term_associations, QB) # <<>>
    /\ \E t \in Tasks :
          /\ tasks[t].pc = "returned"
          /\ tasks[t].op = "search"
          /\ tasks[t].arg = QA
          /\ tasks[t].result.expanded_query = QA

(* C4: a learning step for query q leaves q's list as it was, followed by   *)
(* at most 10 appended terms, none of them in the list before and no two of  *)
(* them equal; the lists of all other keys are unchanged.                    *)
C4_LearnAppendsAtMostTen ==
    [][\A t \in Tasks :
        (SearchReturns(t) /\ tasks'[t].learn /\ learning_enabled) =>
            LET q == tasks'[t].arg
                old == ListOf(term_associations, q)
                new == ListOf(term_associations', q)
            IN /\ IsPrefix(old, new)
               /\ Len(new) - Len(old) <= 10
               /\ Range(Suffix(old, new)) \cap Range(old) = {}
               /\ NoDuplicates(Suffix(old, new))
               /\ dict_keys(term_associations') = dict_keys(term_associations) \cup {q}
               /\ \A k \in dict_keys(term_associations) \ {q} :
                     dict_get(term_associations', k) = dict_get(term_associations, k)
      ]_vars

\* A learning step has met more than 10 new terms and kept 10 of them.
C4_Witness ==
    \E t \in Tasks :
        /\ tasks[t].pc = "returned"
        /\ tasks[t].op = "search"
        /\ tasks[t].learn
        /\ Len(tasks[t].result.learned_terms) = 10
        /\ Cardinality(learned_terms(tasks[t].result.facts, tasks[t].result.episodes)) > 10

\* The store episodes of a group whose uuid is among uuids, in store order
MatchingEpisodes(group_id, uuids) ==
    LET matches(e) == "uuid" \in DOMAIN e /\ e.uuid \in uuids
    IN SelectSeq(StoreEpisodes(group_id), matches)

\* The matching episodes of the first n groups, in group order
RECURSIVE MatchesOfFirst(_, _, _)
MatchesOfFirst(n, group_ids, uuids) ==
    IF n = 0 THEN <<>>
    ELSE MatchesOfFirst(n - 1, group_ids, uuids) \o MatchingEpisodes(group_ids[n], uuids)

UuidsOf(episodes) == [i \in DOMAIN episodes |-> episodes[i].uuid]

(* C3 as stated: when the store raises on the fetch for any group, the      *)
(* search gets an empty sequence of episodes.                               *)
C3_Original ==
    \A t \in Tasks :
        (tasks[t].pc = "returned" /\ tasks[t].op = "search" /\ tasks[t].fetch_error = "store")
        => tasks[t].result.episodes = <<>>

(* C3, amended: when the store raises on the fetch for group i, the search  *)
(* gets the matching episodes of the groups before i, in group order (none   *)
(* when i is the first group), no later group is fetched, and no error       *)
(* reaches the caller.                                                       *)
C3_FetchErrorKeepsEarlierGroups ==
    [][\A t \in Tasks :
        (/\ tasks[t].pc = "await_episodes"
         /\ tasks'[t] # tasks[t]
         /\ tasks'[t].fetch_error = "store")
        => /\ tasks'[t].pc = "returned"
           /\ UuidsOf(tasks'[t].result.episodes)
                = UuidsOf(MatchesOfFirst(tasks[t].gi - 1, tasks[t].group_ids, tasks[t].uuids))
           /\ tasks'[t].fetch_calls = tasks[t].gi
      ]_vars

\* The store raised on a later group after an earlier group had yielded an episode.
C3_Witness ==
    \E t \in Tasks :
        /\ tasks[t].pc = "returned"
        /\ tasks[t].op = "search"
        /\ tasks[t].fetch_error = "store"
        /\ tasks[t].fetch_calls = 3
        /\ Len(tasks[t].result.episodes) = 2

(* C5: when save has succeeded on an instance holding table T and a fresh   *)
(* instance is constructed, the fresh instance's table has the keys of T,    *)
(* each with the terms of T in the same order.                               *)
C5_SaveLoadRoundTrip ==
    [][(ConstructStep /\ save_status = "ok")
        => Mapping(term_associations') = Mapping(term_associations)]_vars

\* A fresh instance holds a table with learned terms, which it has loaded.
C5_Witness ==
    /\ save_status = "none"
    /\ \E i \in DOMAIN term_associations : Len(term_associations[i][2]) >= 2
    /\ dict_has(term_associations, QA)
    /\ file.state = "json"
    /\ \A t \in Tasks : tasks[t].pc = "idle"

\* The terms the claim calls K, over the episodes a search got
FirstEpisodes(episodes) == Take(episodes, 5)

(* C6 as stated: after a learning search for q that got an episode with     *)
(* keyword terms K, q's list holds every term of K in lowercase and          *)
(* expand(q) includes every one of them.                                     *)
C6_Original ==
    \A t \in Tasks :
        (tasks[t].pc = "returned" /\ tasks[t].op = "search" /\ tasks[t].learn)
        => \A e \in Range(tasks[t].result.episodes) :
              \A term \in episode_terms(e) :
                  /\ term \in Range(ListOf(term_associations, tasks[t].arg))
                  /\ Contains(_expand_query(tasks[t].arg), term)

(* C6, amended: after a learning search for q in which at most 10 candidate *)
(* terms were new to q, q's list holds, in lowercase, every keyword term     *)
(* (listed under chinese, english or technical) of each of the first 5       *)
(* episodes the search got, except a term equal to the lowercased q; and     *)
(* expand(q) includes each of the first 5 terms of q's list.                 *)
C6_LearnedKeywordsExpand ==
    /\ [][\A t \in Tasks :
            (SearchReturns(t) /\ tasks'[t].learn /\ learning_enabled) =>
                LET r == tasks'[t].result
                    q == r.query
                    fresh == (learned_terms(r.facts, r.episodes)
                                \ Range(ListOf(term_associations, q))) \ {lower(q)}
                IN Cardinality(fresh) <= 10 =>
                      \A e \in Range(FirstEpisodes(r.episodes)) :
                          episode_terms(e) \ {lower(q)}
                              \subseteq Range(ListOf(term_associations', q))
         ]_vars
    /\ [](\A q \in dict_keys(term_associations) :
             \A term \in Range(Take(dict_get(term_associations, q), 5)) :
                 Contains(_expand_query(q), term))

\* A learning search for "Abc" got episode e1 and learned its keyword "sh",
\* which expand now includes.
C6_Witness ==
    \E t \in Tasks :
        /\ tasks[t].pc = "returned"
        /\ tasks[t].op = "search"
        /\ tasks[t].learn
        /\ tasks[t].arg = QA
        /\ \E i \in DOMAIN tasks[t].result.episodes : tasks[t].result.episodes[i].uuid = "e1"
        /\ <<"s","h">> \in Range(ListOf(term_associations, QA))
        /\ <<"d","e"," ","a","b","c">> \in Range(ListOf(term_associations, QA))
        /\ Contains(_expand_query(QA), <<"s","h">>)

(* C7: no failure is fatal.  Whatever the store and the file system do, no  *)
(* call ends with an exception: a search that has ended has returned a       *)
(* result record, a get_episode_by_uuid that has ended has returned an       *)
(* episode or None.  When no client is configured or the fact search raised, *)
(* the search returns no facts and no episodes and has made no episode-fetch *)
(* call to the store.                                                        *)
C7_NoFailureIsFatal ==
    \A t \in Tasks :
        /\ tasks[t].pc # "raised"
        /\ (tasks[t].pc = "returned" /\ tasks[t].op = "search") =>
              /\ tasks[t].result.kind = "search"
              /\ tasks[t].facts_error \in {"no_client", "raised"} =>
                    /\ tasks[t].result.facts = <<>>
                    /\ tasks[t].result.episodes = <<>>
                    /\ tasks[t].fetch_calls = 0
        /\ (tasks[t].pc = "returned" /\ tasks[t].op = "get_episode_by_uuid") =>
              tasks[t].result.kind \in {"episode", "None"}

\* A learning search has returned although the fact search raised and the
\* file write failed.
C7_Witness ==
    \E t \in Tasks :
        /\ tasks[t].pc = "returned"
        /\ tasks[t].op = "search"
        /\ tasks[t].learn
        /\ tasks[t].facts_error = "raised"
        /\ save_status = "failed"
        /\ file = Malformed

(* C8: construction with the file absent, or holding a malformed document,  *)
(* completes without raising and leaves the table of the new instance empty. *)
C8_LoadFailureStartsEmpty ==
    /\ (file.state \in {"absent", "malformed"}
            => init_status = "ok" /\ term_associations = <<>>)
    /\ [][(ConstructStep /\ file.state \in {"absent", "malformed"})
            => init_status' = "ok" /\ term_associations' = <<>>]_vars

\* A fresh instance has been constructed over a malformed file.
C8_Witness ==
    /\ file = Malformed
    /\ save_status = "none"
    /\ init_status = "ok"
    /\ term_associations = <<>>
    /\ \A t \in Tasks : tasks[t].pc = "idle"

(* C9: when a learning search returns and the file write did not fail, the  *)
(* mapping in the file equals the table in memory; a step of a search with   *)
(* learn=false changes neither the table nor the file.                       *)
C9_FlushedAfterLearning ==
    [][\A t \in Tasks :
        /\ (SearchReturns(t) /\ tasks'[t].learn /\ learning_enabled /\ save_status' = "ok")
              => file'.state = "json" /\ FileMapping(file') = Mapping(term_associations')
        /\ (tasks'[t] # tasks[t] /\ tasks'[t].op = "search" /\ ~tasks'[t].learn)
              => term_associations' = term_associations /\ file' = file
      ]_vars

\* A learning search has returned with new terms and a successful write.
C9_Witness ==
    \E t \in Tasks :
        /\ tasks[t].pc = "returned"
        /\ tasks[t].op = "search"
        /\ tasks[t].learn
        /\ Len(tasks[t].result.learned_terms) >= 3
        /\ save_status = "ok"
        /\ file.state = "json"
        /\ Cardinality(dict_keys(term_associations)) = 2

AllReturned == \A t \in Tasks : Free(t)

TableSound ==
    /\ \A i \in DOMAIN term_associations : NoDuplicates(term_associations[i][2])
    /\ \A p \in learned_log : p[2] \in Range(ListOf(term_associations, p[1]))

====
